---- MODULE Spec2Model ----
(***************************************************************************)
(* The AQI core of main.py (FastAPI backend "Metro Manila Air Quality Risk *)
(* Prediction API"): the breakpoint tables, compute_sub_aqi, aqi_category  *)
(* and the /predict handler (input resolution, feature vector, sub-AQIs,   *)
(* aggregation, response).                                                 *)
(*                                                                         *)
(* Handlers.  predict is an ordinary function, run by the server in worker *)
(* threads without a lock, so two handlers may be in flight at once.  A    *)
(* handler whose `inputs` is the stored latest_inputs dict of a city takes *)
(* one step per access to that dict (each assignment, each get, the        *)
(* creation of the items() iterator and each of its next() calls); the     *)
(* computation between two accesses belongs to the step of the access      *)
(* before it.  A handler whose `inputs` is its own fresh dict touches      *)
(* nothing another handler can see and runs in one step.                   *)
(*                                                                         *)
(* Numbers.  Concentrations are integers counting tenths of the unit       *)
(* (35.4 is 354).  A sub-index before rounding is the exact rational       *)
(* [n |-> numerator, d |-> denominator], d > 0; the double the code        *)
(* computes is that rational up to representation error, and is exactly    *)
(* the table endpoint at every segment endpoint.  A value rounded to one   *)
(* decimal (round(x, 1)) is an integer counting tenths (100.0 is 1000).    *)
(* An Optional value is the tuple << >> (None) or <<v>> (the value v).     *)
(* A dict is the sequence of its items [k |-> key, v |-> value] in         *)
(* insertion order.                                                        *)
(***************************************************************************)
EXTENDS Integers, Sequences, FiniteSets, TLC

VARIABLES
    dashboard_by_city,  \* main.py:35-41, the module-level dict
    loaded,             \* what dashboard_by_city held right after startup
    nreq,               \* number of /predict requests received so far
    handler,            \* per worker: the frame of predict it is running
    fpollutant,         \* argument `pollutant` of a compute_sub_aqi call
    fvalue,             \* argument `value` of a compute_sub_aqi call
    fcalled,            \* whether that call has returned
    fresult             \* what it returned

vars == <<dashboard_by_city, loaded, nreq, handler,
          fpollutant, fvalue, fcalled, fresult>>

---------------------------------------------------------------------------
(* Bounds of the model *)

\* number of /predict requests received in one behaviour
MaxRequests == 2
\* largest concentration handed to compute_sub_aqi, in whole units
MaxConc == 2060
\* most negative concentration handed to compute_sub_aqi, in whole units
MaxNeg == 2

---------------------------------------------------------------------------
(* Optional values and dicts *)

None == << >>
Some(v) == <<v>>

\* {}
EmptyDict == << >>

Keys(d) == {d[j].k : j \in 1..Len(d)}
IndexOf(d, k) == CHOOSE j \in 1..Len(d) : d[j].k = k

\* dict.get(key, default)
DictGet(d, k, default) == IF k \in Keys(d) THEN d[IndexOf(d, k)].v ELSE default

\* d[key] = value: in place for a key the dict has, appended otherwise
DictSet(d, k, value) ==
    IF k \in Keys(d) THEN [d EXCEPT ![IndexOf(d, k)].v = value]
    ELSE Append(d, [k |-> k, v |-> value])

\* exact rationals
Rat(n, d) == [n |-> n, d |-> d]
RatLeqInt(q, i) == q.n <= i * q.d
RatEqInt(q, i) == q.n = i * q.d
RatLess(p, q) == p.n * q.d < q.n * p.d
\* a one-decimal value t (tenths) as a rational
OfTenths(t) == Rat(t, 10)

---------------------------------------------------------------------------
(* AQI breakpoint tables, main.py:58-115.  (Conc_low, Conc_high, I_low,    *)
(* I_high); concentrations in tenths.                                      *)

AQI_BREAKPOINTS ==
    [ pm25 |-> << <<0, 120, 0, 50>>, <<121, 354, 51, 100>>, <<355, 554, 101, 150>>,
                  <<555, 1504, 151, 200>>, <<1505, 2504, 201, 300>>,
                  <<2505, 3504, 301, 400>>, <<3505, 5004, 401, 500>> >>,
      pm10 |-> << <<0, 540, 0, 50>>, <<550, 1540, 51, 100>>, <<1550, 2540, 101, 150>>,
                  <<2550, 3540, 151, 200>>, <<3550, 4240, 201, 300>>,
                  <<4250, 5040, 301, 400>>, <<5050, 6040, 401, 500>> >>,
      o3   |-> << <<0, 540, 0, 50>>, <<550, 700, 51, 100>>, <<710, 850, 101, 150>>,
                  <<860, 1050, 151, 200>>, <<1060, 2000, 201, 300>> >>,
      co   |-> << <<0, 44, 0, 50>>, <<45, 94, 51, 100>>, <<95, 124, 101, 150>>,
                  <<125, 154, 151, 200>>, <<155, 304, 201, 300>>,
                  <<305, 404, 301, 400>>, <<405, 504, 401, 500>> >>,
      no2  |-> << <<0, 530, 0, 50>>, <<540, 1000, 51, 100>>, <<1010, 3600, 101, 150>>,
                  <<3610, 6490, 151, 200>>, <<6500, 12490, 201, 300>>,
                  <<12500, 16490, 301, 400>>, <<16500, 20490, 401, 500>> >>,
      so2  |-> << <<0, 350, 0, 50>>, <<360, 750, 51, 100>>, <<760, 1850, 101, 150>>,
                  <<1860, 3040, 151, 200>>, <<3050, 6040, 201, 300>>,
                  <<6050, 8040, 301, 400>>, <<8050, 10040, 401, 500>> >> ]

\* aqi_category with exclusive upper bounds
aqi_category_Strict(aqi_val) ==
    IF aqi_val.n < 50 * aqi_val.d THEN "Good"
    ELSE IF aqi_val.n < 100 * aqi_val.d THEN "Moderate"
    ELSE IF aqi_val.n < 150 * aqi_val.d THEN "Unhealthy for Sensitive Groups"
    ELSE IF aqi_val.n < 200 * aqi_val.d THEN "Unhealthy"
    ELSE IF aqi_val.n < 300 * aqi_val.d THEN "Very Unhealthy"
    ELSE "Hazardous"

\* main.py:118-129
aqi_category(aqi_val) ==
    IF RatLeqInt(aqi_val, 50) THEN "Good"
    ELSE IF RatLeqInt(aqi_val, 100) THEN "Moderate"
    ELSE IF RatLeqInt(aqi_val, 150) THEN "Unhealthy for Sensitive Groups"
    ELSE IF RatLeqInt(aqi_val, 200) THEN "Unhealthy"
    ELSE IF RatLeqInt(aqi_val, 300) THEN "Very Unhealthy"
    ELSE "Hazardous"

\* main.py:132-133: ((Ihigh - Ilow) / (Chigh - Clow)) * (Cp - Clow) + Ilow
linear_iaqi(Cp, Clow, Chigh, Ilow, Ihigh) ==
    Rat((Ihigh - Ilow) * (Cp - Clow) + Ilow * (Chigh - Clow), Chigh - Clow)

\* max(0.0, x)
Max0(q) == IF q.n < 0 THEN Rat(0, 1) ELSE q

\* FirstSegment with the segment's upper end excluded
RECURSIVE FirstSegment_OpenUpper(_, _, _)
FirstSegment_OpenUpper(segs, value, i) ==
    IF i > Len(segs) THEN 0
    ELSE IF segs[i][1] <= value /\ value < segs[i][2] THEN i
    ELSE FirstSegment_OpenUpper(segs, value, i + 1)

\* main.py:141-142: index of the first segment with Clow <= value <= Chigh, 0 if none
RECURSIVE FirstSegment(_, _, _)
FirstSegment(segs, value, i) ==
    IF i > Len(segs) THEN 0
    ELSE IF segs[i][1] <= value /\ value <= segs[i][2] THEN i
    ELSE FirstSegment(segs, value, i + 1)

\* compute_sub_aqi capped at the last segment's I_high above the table
compute_sub_aqi_Capped(pollutant, value) ==
    IF value = None THEN None
    ELSE IF pollutant \notin DOMAIN AQI_BREAKPOINTS THEN None
    ELSE LET segs == AQI_BREAKPOINTS[pollutant]
             v    == value[1]
             i    == FirstSegment(segs, v, 1)
             last == segs[Len(segs)]
         IN  IF i # 0
             THEN Some(Max0(linear_iaqi(v, segs[i][1], segs[i][2], segs[i][3], segs[i][4])))
             ELSE IF v > last[2] THEN Some(Rat(last[4], 1))
             ELSE None

\* main.py:135-150
compute_sub_aqi(pollutant, value) ==
    IF value = None THEN None
    ELSE IF pollutant \notin DOMAIN AQI_BREAKPOINTS THEN None
    ELSE LET segs == AQI_BREAKPOINTS[pollutant]
             v    == value[1]
             i    == FirstSegment(segs, v, 1)
             last == segs[Len(segs)]
         IN  IF i # 0
             THEN Some(Max0(linear_iaqi(v, segs[i][1], segs[i][2], segs[i][3], segs[i][4])))
             ELSE IF v > last[2]
             THEN Some(Max0(linear_iaqi(v, last[1], last[2], last[3], last[4])))
             ELSE None

\* The readings (pollutant, tenths) whose exact sub-index lies midway between
\* two tenths and whose double, as linear_iaqi computes it, round(x, 1) takes to
\* the upper tenth; at every other such reading round takes the double to the
\* lower tenth.  Covers concentrations up to 2070.0.
TieRoundsUp ==
    [ pm25 |-> {
           9, 21, 27, 33, 45, 57, 69, 75, 81, 93, 99, 105, 117 },
      pm10 |-> {},
      no2  |-> {
           609, 747, 793, 839, 885, 931, 977, 4618, 4906, 5482, 5770, 6346 },
      so2  |-> {
           2273, 2391, 2745, 2863, 2981 },
      co   |-> {},
      o3   |-> {
           715, 717, 719, 727, 729, 735, 737, 739, 747, 749, 755, 757, 759,
           767, 769, 775, 777, 779, 787, 789, 795, 797, 799, 807, 809, 815,
           817, 819, 827, 829, 835, 837, 839, 847, 849, 1295, 1389, 1483,
           1671, 1953, 2235, 2423, 2611, 3081, 3175, 3551, 3833, 4021, 4115,
           5055, 5337, 5807, 5995, 6277, 6371, 6747, 6841, 6935, 7217, 7311,
           9755, 10319, 10695, 10789, 10977, 11259, 11447, 11635, 11729,
           11917, 12199, 12387, 12575, 12669, 12857, 13139, 13327, 13515,
           13609, 13797, 14079, 19155, 20095, 20659 } ]

\* round(x, 1), in tenths, of the double of the non-negative rational q: the
\* nearest tenth; when q lies midway between two tenths the double lies on one
\* side of the midpoint and `up` says whether round takes it to the upper tenth
Round1(q, up) ==
    LET m  == 10 * q.n
        fl == m \div q.d
        r2 == 2 * (m % q.d)
    IN  IF r2 > q.d THEN fl + 1
        ELSE IF r2 < q.d THEN fl
        ELSE IF up THEN fl + 1 ELSE fl

\* main.py:243: round(float(sub), 1) of the sub-index q that
\* compute_sub_aqi(pollutant, value) returned
RoundSub(pollutant, value, q) == Round1(q, value \in TieRoundsUp[pollutant])

---------------------------------------------------------------------------
(* The /predict handler, main.py:185-270 *)

\* main.py:203, the 8 recognized request fields in loop order
Fields == <<"pm25", "pm10", "no2", "so2", "co", "o3", "temperature", "humidity">>
FieldSet == {Fields[i] : i \in 1..Len(Fields)}

\* main.py:32, the classifier's fixed-order feature names
FEATURES == <<"pm25", "pm10", "no2", "so2", "co", "o3", "temperature", "humidity">>

\* main.py:226-233, in insertion (iteration) order
pollutant_keys == <<"pm25", "pm10", "no2", "so2", "co", "o3">>
pollutant_map == [k \in {pollutant_keys[i] : i \in 1..Len(pollutant_keys)} |-> k]

\* str.lower() on the city names of the model
Lower(s) ==
    CASE s = "Manila" -> "manila"
      [] s = "MANILA" -> "manila"
      [] s = "manila" -> "manila"
      [] s = "Pasig" -> "pasig"
      [] s = "PASIG" -> "pasig"
      [] OTHER -> s

\* key order of the dict json.load builds from dashboard_by_city.json
dashboard_keys == <<"Manila", "Pasig">>

\* main.py:192-196: first key c with c.lower() == city.lower(), None if none
RECURSIVE FindCity(_, _, _)
FindCity(dash, city, i) ==
    IF i > Len(dashboard_keys) THEN None
    ELSE IF dashboard_keys[i] \in DOMAIN dash /\ Lower(dashboard_keys[i]) = Lower(city)
         THEN Some(dashboard_keys[i])
    ELSE FindCity(dash, city, i + 1)

\* main.py:189-197: the key whose entry the request starts from, None if none.
\* An empty or absent city is falsy and is not looked up.
Found(dash, req) ==
    IF req.city = None \/ req.city = Some("") THEN None
    ELSE FindCity(dash, req.city[1], 1)

\* main.py:198: whether `inputs` is the stored latest_inputs dict itself
\* (.get returns the stored object; its default {} is a fresh dict)
SharesStored(dash, req) ==
    /\ Found(dash, req) # None
    /\ "latest_inputs" \in DOMAIN dash[Found(dash, req)[1]]

---------------------------------------------------------------------------
(* One run of predict.  A frame holds the locals of the run and its          *)
(* position `pc`: the access to the dict `inputs` it is about to make.       *)
(*   "overwrite"  inputs[Fields[i]] = float(val)             main.py:206     *)
(*   "features"   inputs.get(FEATURES[i], 0.0)               main.py:211     *)
(*   "subaqi"     inputs.get(pollutant_keys[i], None)        main.py:236     *)
(*   "iter"       iter(inputs.items())                       main.py:263     *)
(*   "items"      next() on that iterator                    main.py:263     *)
(*   "done"       the run has ended, `response` is its outcome               *)

IdleFrame ==
    [ pc       |-> "idle",
      req      |-> None,      \* the request body
      stored   |-> None,      \* the city key whose latest_inputs `inputs` is,
                              \* None when `inputs` is the run's own dict
      i        |-> 0,         \* position in the current loop
      X        |-> << >>,     \* main.py:209
      vals     |-> << >>,     \* the `val` of main.py:236, per pollutant
      sub_aqi  |-> EmptyDict, \* main.py:234
      n0       |-> 0,         \* the size the items() iterator was created at
      seen     |-> EmptyDict, \* the items the iterator has produced
      response |-> None ]

\* main.py:203-205: the first field at position i or later that the request
\* sets, Len(Fields) + 1 if none
RECURSIVE NextExplicit(_, _)
NextExplicit(req, i) ==
    IF i > Len(Fields) THEN i
    ELSE IF req[Fields[i]] # None THEN i
    ELSE NextExplicit(req, i + 1)

\* the overwrite loop has reached position j: the next access is an
\* assignment, or the first get of the feature loop
AtOverwrite(h, j) ==
    IF j <= Len(Fields) THEN [h EXCEPT !.pc = "overwrite", !.i = j]
    ELSE [h EXCEPT !.pc = "features", !.i = 1]

\* main.py:188-203: the frame of a run on request req, up to its first access
Bind(dash, req) ==
    AtOverwrite([IdleFrame EXCEPT
                    !.req = Some(req),
                    !.stored = IF SharesStored(dash, req) THEN Found(dash, req)
                               ELSE None],
                NextExplicit(req, 1))

\* main.py:212-215: float(v); float(None) raises and 0.0 is appended
Feature(v) == IF v = None THEN 0 ELSE v[1]

\* line 236 with a missing pollutant read as 0.0, the way line 211 reads it
ReadPollutant_ZeroDefault(d, key) == DictGet(d, key, Some(0))

\* main.py:236
ReadPollutant(d, key) == DictGet(d, key, None)

\* main.py:237-243: the entry sub_aqi[key] for the value read, rounded to one
\* decimal (tenths)
SubAqi(pol, val) ==
    IF val = None THEN None
    ELSE LET sub == compute_sub_aqi(pol, val)
         IN  IF sub = None THEN None ELSE Some(RoundSub(pol, val[1], sub[1]))

IsValid(e) == e.v # None

\* main.py:247: the entries of sub_aqi that are not None, in order
ValidSubs(sub_aqi) == SelectSeq(sub_aqi, IsValid)

MaxOf(S) == CHOOSE m \in S : \A x \in S : x <= m

\* main.py:248-252: max(valid_subs.values()), None when valid_subs is empty
OverallAqi(sub_aqi) ==
    LET valid_subs == ValidSubs(sub_aqi)
    IN  IF valid_subs = << >> THEN None
        ELSE Some(MaxOf({valid_subs[j].v[1] : j \in 1..Len(valid_subs)}))

\* FirstWith scanning the keys from the last one
RECURSIVE FirstWith_Last(_, _, _)
FirstWith_Last(valid_subs, m, i) ==
    IF valid_subs[Len(valid_subs) + 1 - i].v = Some(m)
    THEN valid_subs[Len(valid_subs) + 1 - i].k
    ELSE FirstWith_Last(valid_subs, m, i + 1)

\* main.py:250: max(valid_subs, key=...) returns the first key, in iteration
\* order, whose value is the largest
RECURSIVE FirstWith(_, _, _)
FirstWith(valid_subs, m, i) ==
    IF valid_subs[i].v = Some(m) THEN valid_subs[i].k
    ELSE FirstWith(valid_subs, m, i + 1)

\* main.py:250-253
MainPollutant(sub_aqi) ==
    IF ValidSubs(sub_aqi) = << >> THEN None
    ELSE Some(FirstWith(ValidSubs(sub_aqi), OverallAqi(sub_aqi)[1], 1))

\* OverallCat without the None check, None read as 0
OverallCat_NoNoneCheck(overall_aqi) ==
    IF overall_aqi = None THEN Some(aqi_category(Rat(0, 1)))
    ELSE Some(aqi_category(OfTenths(overall_aqi[1])))

\* main.py:256
OverallCat(overall_aqi) ==
    IF overall_aqi = None THEN None ELSE Some(aqi_category(OfTenths(overall_aqi[1])))

\* main.py:259-269, answered with status 200 (prediction and probabilities
\* come from the external classifier and are left out)
Response(req, inputs_used, sub_aqi) ==
    LET overall_aqi == OverallAqi(sub_aqi)
    IN  [ status         |-> 200,
          city           |-> req.city,
          inputs_used    |-> inputs_used,
          sub_aqi        |-> sub_aqi,
          aqi            |-> IF overall_aqi = None THEN None
                             ELSE Some(Round1(OfTenths(overall_aqi[1]), FALSE)),
          aqi_category   |-> OverallCat(overall_aqi),
          main_pollutant |-> MainPollutant(sub_aqi) ]

\* main.py:263 raised RuntimeError (dictionary changed size during iteration);
\* nothing catches it and the server answers with status 500
ServerError == [ status |-> 500 ]

\* One access of a run with frame h to the dict d that `inputs` names: the
\* frame and the dict after it
Step(h, d) ==
    CASE h.pc = "overwrite" ->
            [ h |-> AtOverwrite(h, NextExplicit(h.req[1], h.i + 1)),
              d |-> DictSet(d, Fields[h.i], h.req[1][Fields[h.i]]) ]
      [] h.pc = "features" ->
            [ h |-> [h EXCEPT
                        !.X = Append(@, Feature(DictGet(d, FEATURES[h.i], Some(0)))),
                        !.pc = IF h.i = Len(FEATURES) THEN "subaqi" ELSE @,
                        !.i = IF h.i = Len(FEATURES) THEN 1 ELSE @ + 1],
              d |-> d ]
      [] h.pc = "subaqi" ->
            LET key == pollutant_keys[h.i]
                val == ReadPollutant(d, key)
            IN  [ h |-> [h EXCEPT
                            !.vals = Append(@, val),
                            !.sub_aqi = DictSet(@, key, SubAqi(pollutant_map[key], val)),
                            !.pc = IF h.i = Len(pollutant_keys) THEN "iter" ELSE @,
                            !.i = IF h.i = Len(pollutant_keys) THEN 0 ELSE @ + 1],
                  d |-> d ]
      [] h.pc = "iter" ->
            [ h |-> [h EXCEPT !.n0 = Len(d), !.pc = "items", !.i = 1], d |-> d ]
      [] h.pc = "items" ->
            [ h |-> IF Len(d) # h.n0
                    THEN [h EXCEPT !.pc = "done", !.response = Some(ServerError)]
                    ELSE IF h.i > h.n0
                    THEN [h EXCEPT !.pc = "done",
                                   !.response = Some(Response(h.req[1], h.seen, h.sub_aqi))]
                    ELSE [h EXCEPT !.seen = Append(@, d[h.i]), !.i = @ + 1],
              d |-> d ]

\* a run to its end with nothing else touching d
RECURSIVE Run(_, _)
Run(h, d) ==
    IF h.pc = "done" THEN [h |-> h, d |-> d]
    ELSE LET s == Step(h, d) IN Run(s.h, s.d)

---------------------------------------------------------------------------
(* Startup data and request bodies *)

\* a dashboard_by_city.json: Manila's latest_inputs lacks co and o3 and holds a
\* null so2; Pasig's entry has no latest_inputs
SampleDashboard ==
    [c \in {"Manila", "Pasig"} |->
        IF c = "Manila"
        THEN [latest_inputs |->
                 << [k |-> "pm25", v |-> Some(205)], [k |-> "pm10", v |-> Some(600)],
                    [k |-> "no2", v |-> Some(250)], [k |-> "so2", v |-> None],
                    [k |-> "temperature", v |-> Some(300)],
                    [k |-> "humidity", v |-> Some(700)] >>]
        ELSE [risk |-> "Moderate"]]

\* main.py:41: dashboard_by_city when the file cannot be read
NoDashboard == [c \in {} |-> None]

\* main.py:35-41: the file's content, or {}
Dashboards == {SampleDashboard, NoDashboard}

\* values a request may give each field (tenths)
FieldValues ==
    [f \in FieldSet |->
        CASE f = "pm25" -> {126, 354}
          [] f = "pm10" -> {573, 545}
          [] f = "no2"  -> {300}
          [] f = "so2"  -> {100}
          [] f = "co"   -> {0}
          [] f = "o3"   -> {2001}
          [] f = "temperature" -> {315}
          [] OTHER -> {780}]

\* the `city` of a request: absent, empty, a stored key in another case, a
\* stored key whose entry has no latest_inputs, an unknown name
Cities == {None, Some(""), Some("manila"), Some("PASIG"), Some("unknownplace")}

\* the sets of fields a request sets explicitly
ExplicitSets ==
    {{}, {"pm25"}, {"pm10"}, {"so2"}, {"co"}, {"o3"}, {"temperature"},
     {"pm25", "pm10"}}

\* what a body holds for field f when it sets exactly the fields of S
FieldOptions(f, S) == IF f \in S THEN {Some(v) : v \in FieldValues[f]} ELSE {None}

Bodies ==
    UNION {[pm25 : FieldOptions("pm25", S), pm10 : FieldOptions("pm10", S),
            no2 : FieldOptions("no2", S), so2 : FieldOptions("so2", S),
            co : FieldOptions("co", S), o3 : FieldOptions("o3", S),
            temperature : FieldOptions("temperature", S),
            humidity : FieldOptions("humidity", S)] : S \in ExplicitSets}

\* PredictRequest, main.py:153-162
MakeRequest(city, body) ==
    [k \in FieldSet \cup {"city"} |-> IF k = "city" THEN city ELSE body[k]]

Requests == {MakeRequest(c, b) : c \in Cities, b \in Bodies}

---------------------------------------------------------------------------
(* The service: startup, then /predict requests, each run by a worker thread *)
(* of its own; handler[t] is the run of the t-th request received.           *)

Init ==
    /\ dashboard_by_city \in Dashboards
    /\ loaded = dashboard_by_city
    /\ nreq = 0
    /\ handler = [t \in 1..MaxRequests |-> IdleFrame]
    /\ fpollutant = "pm25"
    /\ fvalue = None
    /\ fcalled = FALSE
    /\ fresult = None

\* POST /predict with body req is received and a worker starts predict on it.
\* A run on a dict of its own goes to its end; a run on a stored latest_inputs
\* stops before its first access to it.
PredictStart(req) ==
    /\ nreq < MaxRequests
    /\ nreq' = nreq + 1
    /\ handler' = [handler EXCEPT ![nreq + 1] =
                      LET h == Bind(dashboard_by_city, req)
                      IN  IF h.stored = None THEN Run(h, EmptyDict).h ELSE h]
    /\ UNCHANGED <<dashboard_by_city, loaded, fpollutant, fvalue, fcalled, fresult>>

\* the run of the t-th request makes its next access to the stored dict
PredictAccess(t) ==
    /\ handler[t].pc \notin {"idle", "done"}
    /\ LET c == handler[t].stored[1]
           s == Step(handler[t], dashboard_by_city[c].latest_inputs)
       IN  /\ handler' = [handler EXCEPT ![t] = s.h]
           /\ dashboard_by_city' = [dashboard_by_city EXCEPT ![c].latest_inputs = s.d]
    /\ UNCHANGED <<loaded, nreq, fpollutant, fvalue, fcalled, fresult>>

Predict == \E req \in Requests : PredictStart(req)

Continue == \E t \in 1..MaxRequests : PredictAccess(t)

Next == Predict \/ Continue

Spec == Init /\ [][Next]_vars

---------------------------------------------------------------------------
(* compute_sub_aqi on its own: one call on any pollutant name and value *)

PollutantArgs == DOMAIN AQI_BREAKPOINTS \cup {"pm1"}
ValueArgs == {None} \cup {Some(c) : c \in (0 - 10 * MaxNeg)..(10 * MaxConc)}

InitSub ==
    /\ dashboard_by_city = SampleDashboard
    /\ loaded = dashboard_by_city
    /\ nreq = 0
    /\ handler = [t \in 1..MaxRequests |-> IdleFrame]
    /\ fpollutant \in PollutantArgs
    /\ fvalue \in ValueArgs
    /\ fcalled = FALSE
    /\ fresult = None

CallSubAqi ==
    /\ ~fcalled
    /\ fcalled' = TRUE
    /\ fresult' = compute_sub_aqi(fpollutant, fvalue)
    /\ UNCHANGED <<dashboard_by_city, loaded, nreq, handler, fpollutant, fvalue>>

\* POST /predict with no city and that one reading as its only field
SingleRequest(pollutant, value) ==
    MakeRequest(None, [f \in FieldSet |-> IF f = pollutant THEN value ELSE None])

PredictSingle ==
    /\ nreq = 0
    /\ fpollutant \in DOMAIN pollutant_map
    /\ PredictStart(SingleRequest(fpollutant, fvalue))

NextSub == CallSubAqi \/ PredictSingle

SpecSub == InitSub /\ [][NextSub]_vars

---------------------------------------------------------------------------
(* Properties *)

\* the fixed enumeration order of the six pollutants
FixedOrder == <<"pm25", "pm10", "no2", "so2", "co", "o3">>
Pollutants == {FixedOrder[i] : i \in 1..Len(FixedOrder)}
OrderIndex(p) == CHOOSE i \in 1..Len(FixedOrder) : FixedOrder[i] = p
FeatureIndex(f) == CHOOSE i \in 1..Len(FEATURES) : FEATURES[i] = f

\* the runs started so far, and those that have ended
Started == 1..nreq
Done(t) == handler[t].pc = "done"
\* the run ended with a 200 response
Answered(t) == Done(t) /\ handler[t].response[1].status = 200
Resp(t) == handler[t].response[1]
Req(t) == handler[t].req[1]
\* the sub_aqi entry of pollutant p in a response
SubOf(r, p) == DictGet(r.sub_aqi, p, None)

\* a dict as a mapping, insertion order forgotten
AsMap(d) == [k \in Keys(d) |-> DictGet(d, k, None)]

\* a field is absent from a reading set: no entry, or a null entry
Absent(readings, f) == DictGet(readings, f, None) = None

\* the stored reading set of the entry a city name matches, empty if none
StoredReadings(dash, city) ==
    LET matches == {c \in DOMAIN dash : city # None /\ Lower(c) = Lower(city[1])}
    IN  IF matches = {} THEN EmptyDict
        ELSE LET c == CHOOSE m \in matches : TRUE
             IN  IF "latest_inputs" \in DOMAIN dash[c] THEN dash[c].latest_inputs
                 ELSE EmptyDict

\* stored readings with every explicitly supplied field replacing its entry
Merged(stored, req) ==
    [k \in Keys(stored) \cup {f \in FieldSet : req[f] # None} |->
        IF k \in FieldSet /\ req[k] # None THEN req[k] ELSE DictGet(stored, k, None)]

\* the outcome of request req served on its own against the profile dash
Alone(dash, req) ==
    Run(Bind(dash, req), StoredReadings(dash, req.city)).h.response[1]

\* C1: after any sequence of /predict requests the CityProfile data
\* (dashboard_by_city with every stored latest_inputs) equals its value right
\* after startup.
C1_StoredReadingsUnchanged == dashboard_by_city = loaded

\* C2: in any sequence or interleaving, every response's inputs_used, sub_aqi,
\* aqi, aqi_category and main_pollutant are a function of that request's body
\* and the startup-loaded CityProfile alone; a request naming a city with no
\* explicit fields gets exactly that city's startup readings.
C2_RequestsIndependent ==
    \A t \in Started :
        Done(t) =>
            /\ Resp(t) = Alone(loaded, Req(t))
            /\ (\A f \in FieldSet : Req(t)[f] = None) =>
                   Resp(t).inputs_used = StoredReadings(loaded, Req(t).city)

\* C4: the resolved reading set is the matched city's stored (startup-loaded)
\* reading set with each explicitly supplied field replacing its entry and all
\* other stored fields retained; with no city or no match it holds exactly the
\* explicitly supplied fields.
C4_InputResolution ==
    \A t \in Started :
        Answered(t) =>
            AsMap(Resp(t).inputs_used)
                = Merged(StoredReadings(loaded, Req(t).city), Req(t))

\* C5: for every pollutant absent from the reading set a response reports
\* (inputs_used) the feature vector holds 0.0 at its position, its sub_aqi is
\* null and it is not the main pollutant; and a pollutant read as absent at
\* line 236 never gets a sub-index, in particular not that of concentration 0.
C5_AbsentIsNotZero ==
    \A t \in Started :
        Answered(t) =>
            \A p \in Pollutants :
                /\ Absent(Resp(t).inputs_used, p) =>
                       /\ handler[t].X[FeatureIndex(p)] = 0
                       /\ SubOf(Resp(t), p) = None
                       /\ Resp(t).main_pollutant # Some(p)
                /\ handler[t].vals[OrderIndex(p)] = None => SubOf(Resp(t), p) = None

\* C5 witness: a response where co was given as zero and scores 0.0 while the
\* absent pm25 has a null sub_aqi and a 0.0 feature
C5_Witness ==
    \E t \in Started :
        /\ Answered(t)
        /\ Absent(Resp(t).inputs_used, "pm25")
        /\ SubOf(Resp(t), "pm25") = None
        /\ SubOf(Resp(t), "co") = Some(0)
        /\ handler[t].X[FeatureIndex("pm25")] = 0
        /\ Resp(t).aqi = Some(0)

\* C6: aqi, aqi_category and main_pollutant are all present or all null; all
\* null exactly when every sub_aqi entry is null; a present main_pollutant has
\* a non-null sub_aqi entry.
C6_AllOrNothing ==
    \A t \in Started :
        Answered(t) =>
            LET r       == Resp(t)
                allNull == \A p \in Pollutants : SubOf(r, p) = None
            IN  /\ Keys(r.sub_aqi) = Pollutants
                /\ (r.aqi = None) = allNull
                /\ (r.aqi_category = None) = allNull
                /\ (r.main_pollutant = None) = allNull
                /\ r.main_pollutant # None => SubOf(r, r.main_pollutant[1]) # None

\* C6 witness: a response to a request that supplied a reading (pm10 = 54.5,
\* between two segments) and still has every sub_aqi entry, aqi, category and
\* pollutant null
C6_Witness ==
    \E t \in Started :
        /\ Answered(t)
        /\ Req(t)["pm10"] = Some(545)
        /\ \A p \in Pollutants : SubOf(Resp(t), p) = None
        /\ Resp(t).aqi = None
        /\ Resp(t).aqi_category = None
        /\ Resp(t).main_pollutant = None

\* C7: when a sub-index is present the overall AQI is the largest present
\* sub-index and main_pollutant is the first pollutant in the order pm25, pm10,
\* no2, so2, co, o3 whose sub-index equals it.
C7_MaxAndFirstInOrder ==
    \A t \in Started :
        (Answered(t) /\ \E p \in Pollutants : SubOf(Resp(t), p) # None) =>
            LET r == Resp(t)
            IN  /\ r.aqi # None
                /\ \E p \in Pollutants : SubOf(r, p) = r.aqi
                /\ \A p \in Pollutants : SubOf(r, p) # None => SubOf(r, p)[1] <= r.aqi[1]
                /\ r.main_pollutant # None
                /\ SubOf(r, r.main_pollutant[1]) = r.aqi
                /\ \A p \in Pollutants :
                       SubOf(r, p) = r.aqi =>
                           OrderIndex(r.main_pollutant[1]) <= OrderIndex(p)

\* C7 witness: pm25 and pm10 tie on the largest sub-index and pm25 is reported
C7_Witness ==
    \E t \in Started :
        /\ Answered(t)
        /\ SubOf(Resp(t), "pm25") # None
        /\ SubOf(Resp(t), "pm25") = SubOf(Resp(t), "pm10")
        /\ Resp(t).aqi = SubOf(Resp(t), "pm25")
        /\ Resp(t).main_pollutant = Some("pm25")

\* the value run t read for pollutant p at line 236, and its exact
\* (unrounded) sub-index
ValRead(t, p) == handler[t].vals[OrderIndex(p)]
Unrounded(t, p) == compute_sub_aqi(p, ValRead(t, p))

\* pollutant p attains the largest unrounded sub-index of run t
AttainsUnroundedMax(t, p) ==
    /\ Unrounded(t, p) # None
    /\ \A q \in Pollutants :
           Unrounded(t, q) # None => ~RatLess(Unrounded(t, p)[1], Unrounded(t, q)[1])

\* the unrounded sub-index of p in run t, rounded to one decimal
RoundedUnrounded(t, p) == RoundSub(p, ValRead(t, p)[1], Unrounded(t, p)[1])

\* the category of a one-decimal AQI t (tenths), upper bounds inclusive
CategoryOfTenths(t) ==
    CASE t <= 500  -> "Good"
      [] t > 500  /\ t <= 1000 -> "Moderate"
      [] t > 1000 /\ t <= 1500 -> "Unhealthy for Sensitive Groups"
      [] t > 1500 /\ t <= 2000 -> "Unhealthy"
      [] t > 2000 /\ t <= 3000 -> "Very Unhealthy"
      [] OTHER -> "Hazardous"

\* C3: compute_sub_aqi returns None if and only if the pollutant is not one of
\* the six recognized ids, the concentration is absent, or the concentration
\* is below the lowest segment's concLow.
C3_AbsentOnlyWhenDocumented ==
    fcalled =>
        ((fresult = None) =
            \/ fpollutant \notin Pollutants
            \/ fvalue = None
            \/ fvalue[1] < AQI_BREAKPOINTS[fpollutant][1][1])

\* C8: at a segment's concLow compute_sub_aqi returns exactly its idxLow and at
\* its concHigh exactly its idxHigh; a request with only pm25 = 35.4 yields
\* sub_aqi.pm25 = 100.0, aqi = 100.0, aqi_category "Moderate", main_pollutant
\* "pm25".
C8_SegmentEndpoints ==
    /\ (fcalled /\ fpollutant \in Pollutants /\ fvalue # None) =>
           \A i \in 1..Len(AQI_BREAKPOINTS[fpollutant]) :
               LET seg == AQI_BREAKPOINTS[fpollutant][i]
               IN  /\ fvalue[1] = seg[1] =>
                         fresult # None /\ RatEqInt(fresult[1], seg[3])
                   /\ fvalue[1] = seg[2] =>
                         fresult # None /\ RatEqInt(fresult[1], seg[4])
    /\ \A t \in Started :
           (Done(t) /\ Req(t) = SingleRequest("pm25", Some(354))) =>
               /\ Resp(t).status = 200
               /\ SubOf(Resp(t), "pm25") = Some(1000)
               /\ Resp(t).aqi = Some(1000)
               /\ Resp(t).aqi_category = Some("Moderate")
               /\ Resp(t).main_pollutant = Some("pm25")

\* C8 witness: compute_sub_aqi("pm25", 35.4) returned 100 and the request with
\* only pm25 = 35.4 was answered
C8_Witness ==
    /\ fcalled
    /\ fpollutant = "pm25"
    /\ fvalue = Some(354)
    /\ fresult # None
    /\ RatEqInt(fresult[1], 100)
    /\ \E t \in Started :
           /\ Answered(t)
           /\ Req(t) = SingleRequest("pm25", Some(354))
           /\ Resp(t).aqi = Some(1000)

\* C9 as stated: the overall AQI is the maximum of the unrounded sub-indices,
\* main_pollutant is the pollutant attaining the unrounded maximum and
\* aqi_category is the category of the unrounded overall AQI.
C9_RoundingOnlyAtAssembly ==
    \A t \in Started :
        (Answered(t) /\ Resp(t).aqi # None) =>
            LET r == Resp(t)
                m == r.main_pollutant[1]
            IN  /\ AttainsUnroundedMax(t, m)
                /\ r.aqi = Some(RoundedUnrounded(t, m))
                /\ r.aqi_category = Some(aqi_category(Unrounded(t, m)[1]))

\* C9 amended: each sub-index is rounded to one decimal before aggregation;
\* the overall AQI is the largest rounded sub-index (the rounding of the
\* largest unrounded one), main_pollutant is a pollutant whose rounded
\* sub-index equals it, and aqi_category is the category of that rounded
\* value, upper bounds inclusive.
C9_RoundedBeforeAggregation ==
    \A t \in Started :
        (Answered(t) /\ Resp(t).aqi # None) =>
            LET r == Resp(t)
            IN  /\ \A p \in Pollutants :
                       SubOf(r, p) = IF Unrounded(t, p) = None THEN None
                                     ELSE Some(RoundedUnrounded(t, p))
                /\ \A p \in Pollutants : SubOf(r, p) # None => SubOf(r, p)[1] <= r.aqi[1]
                /\ \E p \in Pollutants :
                       /\ AttainsUnroundedMax(t, p)
                       /\ r.aqi = Some(RoundedUnrounded(t, p))
                /\ SubOf(r, r.main_pollutant[1]) = r.aqi
                /\ r.aqi_category = Some(CategoryOfTenths(r.aqi[1]))

\* C9 witness: pm10 has the larger unrounded sub-index, pm25 rounds to the same
\* tenth and is reported as main pollutant
C9_Witness ==
    \E t \in Started :
        /\ Answered(t)
        /\ Resp(t).main_pollutant = Some("pm25")
        /\ Unrounded(t, "pm10") # None
        /\ RatLess(Unrounded(t, "pm25")[1], Unrounded(t, "pm10")[1])
        /\ SubOf(Resp(t), "pm10") = Resp(t).aqi

\* C10: above the last segment's concHigh compute_sub_aqi returns the last
\* segment's linear formula at that concentration, strictly greater than its
\* idxHigh with no cap; an overall AQI above 300 is categorized Hazardous.
C10_ExtrapolatesAboveRange ==
    /\ (fcalled /\ fpollutant \in Pollutants /\ fvalue # None) =>
           LET segs == AQI_BREAKPOINTS[fpollutant]
               last == segs[Len(segs)]
           IN  fvalue[1] > last[2] =>
                   /\ fresult # None
                   /\ fresult[1].d = last[2] - last[1]
                   /\ fresult[1].n = (last[4] - last[3]) * (fvalue[1] - last[1])
                                        + last[3] * (last[2] - last[1])
                   /\ ~RatLeqInt(fresult[1], last[4])
    /\ \A t \in Started :
           (Answered(t) /\ Resp(t).aqi # None /\ Resp(t).aqi[1] > 3000) =>
               Resp(t).aqi_category = Some("Hazardous")

\* C10 witness: compute_sub_aqi("pm25", 600) returned more than 500 and the
\* request with only pm25 = 600 was categorized Hazardous
C10_Witness ==
    /\ fcalled
    /\ fpollutant = "pm25"
    /\ fvalue = Some(6000)
    /\ fresult # None
    /\ ~RatLeqInt(fresult[1], 500)
    /\ \E t \in Started :
           /\ Answered(t)
           /\ Resp(t).aqi # None
           /\ Resp(t).aqi[1] > 5000
           /\ Resp(t).aqi_category = Some("Hazardous")

====
